---- MODULE Spec2Model ----
\* Model of the Comet relay: the room registry (connection_manager.py) and the
\* two websocket session handlers (main.py), one coroutine per websocket,
\* interleaved at their await points. The two thread-pool calls of a loop
\* body (translate_text, generate_tts) read and write only locals of the
\* handler, so they commute with every step of the other handlers: the body
\* for one recipient is taken as one step, placed at its send.
EXTENDS Integers, Sequences, FiniteSets, TLC

\* ------------------------------------------------------------------ bounds
MaxUtterances == 1
MaxDrops == 1

\* ------------------------------------------------------- program constants
RoomCapacity == 2
CloseUnauthorized == 1008
CloseRoomFull == 1000
NoClose == 0

\* --------------------------------------------------------- input universes
Sockets == {"w1", "w2", "w3"}
RoomIds == {"r1", "r2"}
NoLanguage == "none"
Languages == {NoLanguage, "en", "fr"}
Endpoints == {"chat", "audio"}
Texts == {<<"hello">>}
EmptyText == <<>>
Tokens == {<<>>, <<"good">>, <<"Bearer", "good">>, <<"bad">>, <<"Bearer", "bad">>}
SendFailures == {"dropped", "disconnect", "error"}

\* the connection attempts explored: what each client asks for
RoomChoices(w) == IF w = "w3" THEN RoomIds ELSE {"r1"}
LanguageChoices(w) == IF w = "w1" THEN {"en"} ELSE IF w = "w2" THEN {"fr"} ELSE {NoLanguage}
EndpointChoices(w) == IF w = "w2" THEN {"audio"} ELSE {"chat"}

VARIABLES
    pc,          \* position of each websocket's handler coroutine
    room,        \* path parameter room_id of each handler
    language,    \* query parameter language of each handler
    endpoint,    \* which route serves the websocket
    client,      \* transport of each websocket: "open" or "gone"
    closeCode,   \* close code the server sent on the websocket
    cred,        \* what the token check found: missing, invalid or verified
    rooms,       \* ConnectionManager.rooms
    iter,        \* the handler's list iterator of its for loop
    cur,         \* locals of the loop: the utterance, its base text, and for
                 \* audio_data what the recognizer makes of it
    inbox,       \* payloads each websocket was sent, in order
    nutt,        \* utterances received so far
    startList,   \* membership when the running fan-out of the handler began
    recvCount,   \* membership size when its utterance was received
    mgrPending,  \* direct connect calls suspended at accept
    mgrSeen,     \* websockets a direct connect call was made for
    mgrLast      \* the last direct call on the manager

vars == <<pc, room, language, endpoint, client, closeCode, cred, rooms, iter, cur,
          inbox, nutt, startList, recvCount,
          mgrPending, mgrSeen, mgrLast>>

mgrVars == <<mgrPending, mgrSeen, mgrLast>>

handlerVars == <<pc, room, language, endpoint, client, closeCode, cred, iter,
                 cur, inbox, nutt, startList, recvCount>>

\* ------------------------------------------------------------ path params
ModelId(w) == <<"model", w>>
UserId(w) == <<"user", w>>
Username(w) == <<"name", w>>

Conn(w, l) ==
    [websocket |-> w, model_id |-> ModelId(w), user_id |-> UserId(w),
     username |-> Username(w), language |-> l]

\* ------------------------------------------------------ ConnectionManager
NoRooms == [r \in {} |-> <<>>]

EnsureRoom(rs, r) ==
    IF r \in DOMAIN rs THEN rs
    ELSE [k \in DOMAIN rs \cup {r} |-> IF k = r THEN <<>> ELSE rs[k]]

\* mutant: the capacity test lets one connection too many in
RoomFullOffByOne(rs, r) == Len(EnsureRoom(rs, r)[r]) > RoomCapacity

RoomFull(rs, r) == Len(EnsureRoom(rs, r)[r]) >= RoomCapacity

\* mutant: the append is made without the capacity test
ConnectResultUnchecked(rs, r, conn) ==
    [EnsureRoom(rs, r) EXCEPT ![r] = Append(@, conn)]

ConnectResult(rs, r, conn) ==
    LET rs1 == EnsureRoom(rs, r) IN
    IF RoomFull(rs, r) THEN rs1
    ELSE [rs1 EXCEPT ![r] = Append(@, conn)]

\* mutant: the full room is refused with the code of a refused credential
RoomFullCloseAsUnauthorized(cc, w) == [cc EXCEPT ![w] = CloseUnauthorized]

\* await websocket.close(code=1000) of connect
RoomFullClose(cc, w) == [cc EXCEPT ![w] = CloseRoomFull]

IsConnected(rs, r, w) ==
    IF r \in DOMAIN rs
    THEN \E i \in 1..Len(rs[r]) : rs[r][i].websocket = w
    ELSE FALSE

Without(s, w) == SelectSeq(s, LAMBDA c : c.websocket # w)

\* mutant: the emptied room keeps its key
DisconnectKeepsEmptyRoom(rs, r, w) ==
    IF r \in DOMAIN rs THEN [rs EXCEPT ![r] = Without(rs[r], w)] ELSE rs

\* mutant: the room is deleted whether or not it is empty
DisconnectDropsRoom(rs, r, w) ==
    IF r \in DOMAIN rs THEN [k \in DOMAIN rs \ {r} |-> rs[k]] ELSE rs

\* mutant: the filter keeps the leaving websocket
DisconnectRemovesNothing(rs, r, w) == rs

DisconnectResult(rs, r, w) ==
    IF r \in DOMAIN rs
    THEN LET kept == Without(rs[r], w) IN
         IF kept = <<>>
         THEN [k \in DOMAIN rs \ {r} |-> rs[k]]
         ELSE [rs EXCEPT ![r] = kept]
    ELSE rs

\* ------------------------------------------------------------------ utils
StripBearer(t) == IF Len(t) > 0 /\ t[1] = "Bearer" THEN Tail(t) ELSE t

VerifyToken(t) == t = <<"good">>

\* mutant: any token that is present is let in
AuthenticatedSkipsVerify(t) == t # <<>>

Authenticated(t) == t # <<>> /\ VerifyToken(StripBearer(t))

\* what the handler's token check saw (main.py 90-100)
Credential(t) ==
    IF t = <<>> THEN "missing"
    ELSE IF VerifyToken(StripBearer(t)) THEN "verified" ELSE "invalid"

Translated(text, lang) == IF text = EmptyText THEN EmptyText ELSE <<lang>> \o text

\* mutant: a failed translation yields no text instead of the original
TranslateTextNoFallback(text, lang, ok) ==
    IF ok THEN Translated(text, lang) ELSE EmptyText

TranslateText(text, lang, ok) == IF ok THEN Translated(text, lang) ELSE text

\* mutant: the sender's language is not looked at
NeedsTranslationAnySender(receiverLanguage, senderLanguage) ==
    receiverLanguage # NoLanguage

NeedsTranslation(receiverLanguage, senderLanguage) ==
    receiverLanguage # NoLanguage /\ receiverLanguage # senderLanguage

\* audio_data, told apart by what recognize_google makes of it: speech it
\* returns as text, noise raises UnknownValueError, and with the service out
\* of reach any audio raises RequestError
AudioInputs == {"text", "unintelligible", "error"}

\* mutant: unclear speech is raised like a service failure
TranscriptionRaisesOnUnclear(heard) == heard # "text"

\* transcribe_audio re-raises only the RequestError
TranscriptionRaises(heard) == heard = "error"

\* the texts transcribe_audio may return
TranscribeAudio(heard) == IF heard = "text" THEN Texts ELSE {EmptyText}

Base64(audio) == <<audio>>
NoAudio == <<>>

GenerateTts(voice, text) == [voice |-> voice, text |-> text]

\* ---------------------------------------------------------------- payloads
\* the wire fields, and for the record: the utterance, its base text and
\* how the translation call ended
Message(w, text, audio, utt, base, tr) ==
    [model_id |-> ModelId(w), user_id |-> UserId(w), username |-> Username(w),
     text |-> text, audio |-> audio, utt |-> utt, base |-> base, tr |-> tr]

DepartureText(w, r) == <<Username(w)[2], "has disconnected from room", r>>

DisconnectMessage(w, r) ==
    Message(w, DepartureText(w, r), NoAudio, 0, EmptyText, "none")

\* mutant: the frame overtakes the frames sent before it
DeliverFirst(box, m) == <<m>> \o box

\* send_text puts the frame behind the frames sent before it
Deliver(box, m) == Append(box, m)

\* ---------------------------------------------------------------- iterators
NoIter == [live |-> FALSE, list |-> <<>>, idx |-> 0]
NoCur == [utt |-> 0, base |-> EmptyText, heard |-> "none"]

\* positions of a handler that is registered and running; "hung" is a loop
\* body suspended in a thread-pool call that does not return
ActivePcs == {"receive", "transcribe", "body", "hung"}

\* positions of a handler an uncaught exception ended while it was registered
RaisedPcs == {"raised_transcribe", "raised_tts", "raised_send"}

\* mutant: the loop runs over the connections of every room
IterListAllRooms(w) ==
    (IF "r1" \in DOMAIN rooms THEN rooms["r1"] ELSE <<>>)
       \o (IF "r2" \in DOMAIN rooms THEN rooms["r2"] ELSE <<>>)

IterList(w) == IF iter[w].live THEN rooms[room[w]] ELSE iter[w].list

\* a send reaches the peer only while its transport is up and its handler runs
Reachable(c) == client[c] = "open" /\ pc[c] \in ActivePcs \cup {"notify"}


Members(rs, r) ==
    IF r \in DOMAIN rs THEN {rs[r][i].websocket : i \in 1..Len(rs[r])} ELSE {}

\* -------------------------------------------------------------------- Init
Init ==
    /\ pc = [w \in Sockets |-> "idle"]
    /\ room = [w \in Sockets |-> "r1"]
    /\ language = [w \in Sockets |-> NoLanguage]
    /\ endpoint = [w \in Sockets |-> "chat"]
    /\ client = [w \in Sockets |-> "open"]
    /\ closeCode = [w \in Sockets |-> NoClose]
    /\ cred = [w \in Sockets |-> "unknown"]
    /\ rooms = NoRooms
    /\ iter = [w \in Sockets |-> NoIter]
    /\ cur = [w \in Sockets |-> NoCur]
    /\ inbox = [w \in Sockets |-> <<>>]
    /\ nutt = 0
    /\ startList = [w \in Sockets |-> <<>>]
    /\ recvCount = [w \in Sockets |-> 0]
    /\ mgrPending = {}
    /\ mgrSeen = {}
    /\ mgrLast = [op |-> "none", room |-> "r1", ws |-> "w1", before |-> NoRooms]

\* ------------------------------------------------------- handler: prologue
\* token check, then manager.connect up to its await websocket.accept()
Start(w) ==
    /\ pc[w] = "idle"
    /\ \E t \in Tokens, r \in RoomChoices(w), l \in LanguageChoices(w),
          e \in EndpointChoices(w) :
       /\ cred' = [cred EXCEPT ![w] = Credential(t)]
       /\ endpoint' = [endpoint EXCEPT ![w] = e]
       /\ IF Authenticated(t)
          THEN /\ pc' = [pc EXCEPT ![w] = "accept"]
               /\ room' = [room EXCEPT ![w] = r]
               /\ language' = [language EXCEPT ![w] = l]
               /\ UNCHANGED closeCode
          ELSE /\ pc' = [pc EXCEPT ![w] = "closed"]
               /\ closeCode' = [closeCode EXCEPT ![w] = CloseUnauthorized]
               /\ UNCHANGED <<room, language>>
    /\ UNCHANGED <<client, rooms, iter, cur, inbox, nutt, startList, recvCount>>
    /\ UNCHANGED mgrVars

\* manager.connect after accept: capacity check and append, then the
\* handler's is_connected test when connect returned without suspending
ConnectRegister(w) ==
    /\ pc[w] = "accept"
    /\ rooms' = ConnectResult(rooms, room[w], Conn(w, language[w]))
    /\ IF RoomFull(rooms, room[w])
       THEN /\ closeCode' = RoomFullClose(closeCode, w)
            /\ pc' = [pc EXCEPT ![w] = "closing"]
       ELSE /\ pc' = [pc EXCEPT ![w] =
                        IF IsConnected(rooms', room[w], w) THEN "receive" ELSE "closed"]
            /\ UNCHANGED closeCode
    /\ UNCHANGED <<room, language, endpoint, client, cred, iter, cur, inbox,
                   nutt, startList, recvCount>>
    /\ UNCHANGED mgrVars

\* after await websocket.close(code=1000): the handler's is_connected test
CheckConnected(w) ==
    /\ pc[w] = "closing"
    /\ pc' = [pc EXCEPT ![w] =
                IF IsConnected(rooms, room[w], w) THEN "receive" ELSE "closed"]
    /\ UNCHANGED <<room, language, endpoint, client, closeCode, cred, rooms,
                   iter, cur, inbox, nutt, startList, recvCount>>
    /\ UNCHANGED mgrVars

\* ------------------------------------------------------ handler: the loops
\* the locals of a fan-out are dead once its loop is left
Forget(w) ==
    /\ iter' = [iter EXCEPT ![w] = NoIter]
    /\ cur' = [cur EXCEPT ![w] = NoCur]
    /\ startList' = [startList EXCEPT ![w] = <<>>]
    /\ recvCount' = [recvCount EXCEPT ![w] = 0]

\* `if room_id in manager.rooms: for conn in manager.rooms[room_id]:` up to
\* the first item of the list
BeginFanout(w, base, n) ==
    IF room[w] \in DOMAIN rooms /\ Len(rooms[room[w]]) > 0
    THEN /\ pc' = [pc EXCEPT ![w] = "body"]
         /\ iter' = [iter EXCEPT ![w] = [live |-> TRUE, list |-> <<>>, idx |-> 1]]
         /\ cur' = [cur EXCEPT ![w] = [NoCur EXCEPT !.utt = n, !.base = base]]
         /\ startList' = [startList EXCEPT ![w] = rooms[room[w]]]
    ELSE /\ pc' = [pc EXCEPT ![w] = "receive"]
         /\ iter' = [iter EXCEPT ![w] = NoIter]
         /\ cur' = [cur EXCEPT ![w] = NoCur]
         /\ startList' = [startList EXCEPT ![w] = <<>>]

\* an exception other than WebSocketDisconnect leaves the handler
Crash(w, at) ==
    /\ pc' = [pc EXCEPT ![w] = at]
    /\ Forget(w)

\* `except WebSocketDisconnect:` manager.disconnect, then the notice loop up
\* to its first send. disconnect rebinds rooms[room_id] to a new list, so
\* every loop still running over the old list keeps the old list.
HandleDisconnect(w) ==
    LET r == room[w]
        old == IF r \in DOMAIN rooms THEN rooms[r] ELSE <<>>
        rs2 == DisconnectResult(rooms, r, w)
    IN  /\ rooms' = rs2
        /\ pc' = [pc EXCEPT ![w] = IF Members(rs2, r) # {} THEN "notify" ELSE "closed"]
        /\ iter' = [x \in Sockets |->
                      IF x = w
                      THEN IF Members(rs2, r) # {}
                           THEN [live |-> TRUE, list |-> <<>>, idx |-> 1]
                           ELSE NoIter
                      ELSE IF iter[x].live /\ room[x] = r /\ r \in DOMAIN rooms
                           THEN [live |-> FALSE, list |-> old, idx |-> iter[x].idx]
                           ELSE iter[x]]
        /\ cur' = [cur EXCEPT ![w] = NoCur]
        /\ startList' = [startList EXCEPT ![w] = <<>>]
        /\ recvCount' = [recvCount EXCEPT ![w] = 0]

\* await websocket.receive_text() / receive_bytes(), while the clients have
\* sent fewer than limit utterances
ReceiveWithin(w, limit) ==
    /\ pc[w] = "receive"
    /\ IF client[w] = "gone"
       THEN /\ HandleDisconnect(w)
            /\ UNCHANGED nutt
       ELSE /\ nutt < limit
            /\ nutt' = nutt + 1
            /\ recvCount' = [recvCount EXCEPT ![w] = Cardinality(Members(rooms, room[w]))]
            /\ IF endpoint[w] = "chat"
               THEN \E t \in Texts : BeginFanout(w, t, nutt + 1)
               ELSE /\ pc' = [pc EXCEPT ![w] = "transcribe"]
                    /\ \E a \in AudioInputs :
                          cur' = [cur EXCEPT ![w] =
                                     [NoCur EXCEPT !.utt = nutt + 1, !.heard = a]]
                    /\ UNCHANGED <<iter, startList>>
            /\ UNCHANGED rooms
    /\ UNCHANGED <<room, language, endpoint, client, closeCode, cred, inbox>>
    /\ UNCHANGED mgrVars

Receive(w) == ReceiveWithin(w, MaxUtterances)

\* await run_in_threadpool(transcribe_audio, audio_data), then the loop head
Transcribe(w) ==
    /\ pc[w] = "transcribe"
    /\ IF TranscriptionRaises(cur[w].heard)
       THEN Crash(w, "raised_transcribe")
       ELSE /\ \E t \in TranscribeAudio(cur[w].heard) :
                  BeginFanout(w, t, cur[w].utt)
            /\ UNCHANGED recvCount
    /\ UNCHANGED <<room, language, endpoint, client, closeCode, cred, rooms, inbox,
                   nutt>>
    /\ UNCHANGED mgrVars

\* the iterator's next() after the body finished item i of list L
NextItem(w, L, i) ==
    IF i + 1 > Len(L)
    THEN /\ pc' = [pc EXCEPT ![w] = "receive"]
         /\ Forget(w)
    ELSE /\ pc' = pc
         /\ iter' = [iter EXCEPT ![w].idx = i + 1]
         /\ UNCHANGED <<cur, startList, recvCount>>

\* how the translation branch of the body ended for a recipient
TranslationOutcomes(receiverLanguage, senderLanguage) ==
    IF NeedsTranslation(receiverLanguage, senderLanguage)
    THEN {"ok", "failed"} ELSE {"none"}

\* translated_text of the body (main.py 116-120)
TranslatedText(base, receiverLanguage, tr) ==
    IF tr = "none" THEN base ELSE TranslateText(base, receiverLanguage, tr = "ok")

\* the loop body for one recipient: translate_text when the languages
\* differ, generate_tts, base64, json, await conn["websocket"].send_text
LoopBody(w) ==
    /\ pc[w] = "body"
    /\ LET L == IterList(w)
           i == iter[w].idx
           c == L[i].websocket
       IN \E tr \in TranslationOutcomes(L[i].language, language[w]), ttsOk \in BOOLEAN :
          LET text == TranslatedText(cur[w].base, L[i].language, tr)
              audio == Base64(GenerateTts(ModelId(w), text))
          IN IF ~ttsOk
             THEN /\ Crash(w, "raised_tts")
                  /\ UNCHANGED <<rooms, inbox>>
             ELSE IF Reachable(c)
             THEN /\ inbox' = [inbox EXCEPT ![c] =
                                  Deliver(@, Message(w, text, audio, cur[w].utt,
                                                     cur[w].base, tr))]
                  /\ NextItem(w, L, i)
                  /\ UNCHANGED rooms
             ELSE \E o \in SendFailures :
                     IF o = "dropped"
                     THEN /\ NextItem(w, L, i)
                          /\ UNCHANGED <<rooms, inbox>>
                     ELSE IF o = "disconnect"
                     THEN /\ HandleDisconnect(w)
                          /\ UNCHANGED inbox
                     ELSE /\ Crash(w, "raised_send")
                          /\ UNCHANGED <<rooms, inbox>>
    /\ UNCHANGED <<room, language, endpoint, client, closeCode, cred, nutt>>
    /\ UNCHANGED mgrVars

\* the iterator's next() of the notice loop
NextNotice(w, L, i) ==
    IF i + 1 > Len(L)
    THEN /\ pc' = [pc EXCEPT ![w] = "closed"]
         /\ iter' = [iter EXCEPT ![w] = NoIter]
    ELSE /\ pc' = pc
         /\ iter' = [iter EXCEPT ![w].idx = i + 1]

\* await conn["websocket"].send_text(disconnect_message)
Notify(w) ==
    /\ pc[w] = "notify"
    /\ LET L == IterList(w)
           i == iter[w].idx
           c == L[i].websocket
       IN IF Reachable(c)
          THEN /\ inbox' = [inbox EXCEPT ![c] = Deliver(@, DisconnectMessage(w, room[w]))]
               /\ NextNotice(w, L, i)
          ELSE \E o \in SendFailures :
                  IF o = "dropped"
                  THEN /\ NextNotice(w, L, i)
                       /\ UNCHANGED inbox
                  ELSE /\ pc' = [pc EXCEPT ![w] = "aborted"]
                       /\ iter' = [iter EXCEPT ![w] = NoIter]
                       /\ UNCHANGED inbox
    /\ UNCHANGED <<room, language, endpoint, client, closeCode, cred, rooms,
                   cur, nutt, startList, recvCount>>
    /\ UNCHANGED mgrVars

\* the peer's transport goes away
ClientDrop(w) ==
    /\ pc[w] \in ActivePcs
    /\ client[w] = "open"
    /\ Cardinality({x \in Sockets : client[x] = "gone"}) < MaxDrops
    /\ client' = [client EXCEPT ![w] = "gone"]
    /\ UNCHANGED <<pc, room, language, endpoint, closeCode, cred, rooms, iter,
                   cur, inbox, nutt, startList, recvCount>>
    /\ UNCHANGED mgrVars

Next ==
    \E w \in Sockets :
        \/ Start(w)
        \/ ConnectRegister(w)
        \/ CheckConnected(w)
        \/ Receive(w)
        \/ Transcribe(w)
        \/ LoopBody(w)
        \/ Notify(w)
        \/ ClientDrop(w)

Spec == Init /\ [][Next]_vars

\* ------------------------------------- adapter calls that do not return
\* requests.post and the translator are called without a timeout: the call
\* made for the current recipient may never return
AdapterHangs(w) ==
    /\ pc[w] = "body"
    /\ pc' = [pc EXCEPT ![w] = "hung"]
    /\ UNCHANGED <<room, language, endpoint, client, closeCode, cred, rooms,
                   iter, cur, inbox, nutt, startList, recvCount>>
    /\ UNCHANGED mgrVars

HangNext ==
    \/ Next
    \/ \E w \in Sockets : AdapterHangs(w)

\* the event loop resumes every coroutine whose awaited call has completed
HandlerStep(w) ==
    \/ ConnectRegister(w)
    \/ CheckConnected(w)
    \/ Receive(w)
    \/ Transcribe(w)
    \/ LoopBody(w)
    \/ Notify(w)

HangSpec ==
    /\ Init
    /\ [][HangNext]_vars
    /\ \A w \in Sockets : WF_vars(HandlerStep(w))

\* ------------------------------------- two connections, longer sessions
\* w1 on the chat endpoint and w2 on the audio endpoint, with one more
\* utterance than the three-connection runs
PairSockets == {"w1", "w2"}

PairReceive(w) == ReceiveWithin(w, MaxUtterances + 1)

PairNext ==
    \E w \in PairSockets :
        \/ Start(w)
        \/ ConnectRegister(w)
        \/ PairReceive(w)
        \/ Transcribe(w)
        \/ LoopBody(w)
        \/ Notify(w)
        \/ ClientDrop(w)

PairSpec == Init /\ [][PairNext]_vars

\* ------------------------------------- the manager called directly
\* connect up to its await websocket.accept(); a websocket is accepted once
MgrAccept(w, r, l) ==
    /\ w \notin mgrSeen
    /\ mgrSeen' = mgrSeen \cup {w}
    /\ mgrPending' = mgrPending \cup {[room |-> r, conn |-> Conn(w, l)]}
    /\ UNCHANGED <<rooms, mgrLast>>
    /\ UNCHANGED handlerVars

\* the rest of connect
MgrConnect(p) ==
    /\ p \in mgrPending
    /\ rooms' = ConnectResult(rooms, p.room, p.conn)
    /\ mgrPending' = mgrPending \ {p}
    /\ mgrLast' = [op |-> "connect", room |-> p.room, ws |-> p.conn.websocket,
                   before |-> rooms]
    /\ UNCHANGED mgrSeen
    /\ UNCHANGED handlerVars

MgrDisconnect(r, w) ==
    /\ rooms' = DisconnectResult(rooms, r, w)
    /\ mgrLast' = [op |-> "disconnect", room |-> r, ws |-> w, before |-> rooms]
    /\ UNCHANGED <<mgrPending, mgrSeen>>
    /\ UNCHANGED handlerVars

MgrNext ==
    \/ \E w \in Sockets, r \in RoomIds :
          \E l \in LanguageChoices(w) : MgrAccept(w, r, l)
    \/ \E p \in mgrPending : MgrConnect(p)
    \/ \E r \in RoomIds, w \in Sockets : MgrDisconnect(r, w)

MgrSpec == Init /\ [][MgrNext]_vars

\* ------------------------------------------------------------ vocabulary
\* the handler of w is past manager.connect's append and before its disconnect
Registered(w) == pc[w] \in ActivePcs \cup RaisedPcs

\* the handler of w takes a step from position p
StepsFrom(w, p) ==
    /\ pc[w] = p
    /\ pc'[w] # p \/ iter'[w] # iter[w] \/ cur'[w] # cur[w]

IsNotice(m) == m.utt = 0

NoticeIdx(box, w) ==
    {i \in DOMAIN box : IsNotice(box[i]) /\ box[i].user_id = UserId(w)}

PayloadIdx(box, w, u) ==
    {i \in DOMAIN box : box[i].utt = u /\ box[i].user_id = UserId(w)}

ListMembers(L) == {L[i].websocket : i \in DOMAIN L}

\* ---------------------------------------------------------------------- C1
\* C1: a room key is in the registry exactly when some handler has joined
\* that room and not left it, and no key maps to an empty participant list.
RoomKeyIffParticipants ==
    /\ \A r \in DOMAIN rooms : r \in RoomIds /\ Len(rooms[r]) > 0
    /\ \A r \in RoomIds :
          r \in DOMAIN rooms <=> \E w \in Sockets : Registered(w) /\ room[w] = r

\* the last participant of a room has left while another room is in use
LastParticipantLeft ==
    \E w \in Sockets :
        /\ pc[w] = "closed"
        /\ closeCode[w] = NoClose
        /\ room[w] \notin DOMAIN rooms
        /\ DOMAIN rooms # {}

\* ---------------------------------------------------------------------- C2
\* C2: a connect to a room that already holds RoomCapacity participants
\* closes the new connection with the room-full code, does not add it, and
\* leaves the registry exactly as it was.
FullRoomRejects ==
    /\ [](\A w \in Sockets :
             closeCode[w] = CloseRoomFull =>
                /\ pc[w] \in {"closing", "closed"}
                /\ ~IsConnected(rooms, room[w], w))
    /\ [][\A w \in Sockets :
             (/\ StepsFrom(w, "accept")
              /\ room[w] \in DOMAIN rooms
              /\ Len(rooms[room[w]]) >= RoomCapacity)
             => /\ rooms' = rooms
                /\ closeCode'[w] = CloseRoomFull
                /\ pc'[w] = "closing"]_vars

\* a third connection was turned away from a room that still holds two
ThirdJoinRejected ==
    \E w \in Sockets :
        /\ pc[w] = "closed"
        /\ closeCode[w] = CloseRoomFull
        /\ room[w] \in DOMAIN rooms
        /\ Len(rooms[room[w]]) = RoomCapacity
        /\ w \notin Members(rooms, room[w])

\* ---------------------------------------------------------------------- C3
\* C3: when generate_tts fails for one recipient of a fan-out, every other
\* recipient of that fan-out (in the room since the fan-out started, and
\* reachable) has its payload of the utterance, with audio, once the handler
\* is through with the utterance.
SynthesisFailureIsolated ==
    [][\A w \in Sockets :
          (StepsFrom(w, "body") /\ pc'[w] = "raised_tts") =>
             \A j \in DOMAIN IterList(w) \ {iter[w].idx} :
                LET c == IterList(w)[j].websocket IN
                (c \in ListMembers(startList[w]) /\ Reachable(c)) =>
                   \E i \in PayloadIdx(inbox'[c], w, cur[w].utt) :
                      inbox'[c][i].audio # NoAudio]_vars

\* ---------------------------------------------------------------------- C4
\* C4: when the send to another recipient fails because that recipient's
\* connection is gone (synthesis for it went through), and recipients of the
\* utterance come after it, the fan-out goes on with the next recipient of
\* the list, so the later recipients still get their payload.
DeliveryFailureIsolated ==
    [][\A w \in Sockets :
          (/\ StepsFrom(w, "body")
           /\ pc'[w] # "raised_tts"
           /\ IterList(w)[iter[w].idx].websocket # w
           /\ ~Reachable(IterList(w)[iter[w].idx].websocket)
           /\ \E j \in DOMAIN IterList(w) :
                 /\ j > iter[w].idx
                 /\ IterList(w)[j].websocket \in ListMembers(startList[w]))
          => /\ pc'[w] = "body"
             /\ iter'[w].idx = iter[w].idx + 1]_vars

LeaveIdempotent ==
    /\ (mgrLast.op = "disconnect"
        /\ ~IsConnected(mgrLast.before, mgrLast.room, mgrLast.ws))
          => rooms = mgrLast.before
    /\ \A r \in RoomIds, w \in Sockets :
          DisconnectResult(DisconnectResult(rooms, r, w), r, w)
             = DisconnectResult(rooms, r, w)

\* disconnect was called for a websocket that had been connected before and
\* is not in the room, which holds somebody else
LeaveOfAbsentConnection ==
    /\ mgrLast.op = "disconnect"
    /\ mgrLast.ws \in mgrSeen
    /\ mgrLast.room \in DOMAIN mgrLast.before
    /\ ~IsConnected(mgrLast.before, mgrLast.room, mgrLast.ws)

\* ---------------------------------------------------------------------- C7
\* C7: a failed translation call never ends the fan-out: every payload
\* delivered after a failed translation carries the base text and the audio
\* synthesized from it, and the step that delivers it leaves the registry
\* alone and goes on to the next recipient, or back to receiving when the
\* list is through.
TranslationFallback ==
    /\ [](\A c \in Sockets : \A i \in DOMAIN inbox[c] :
             inbox[c][i].tr = "failed" =>
                /\ inbox[c][i].text = inbox[c][i].base
                /\ inbox[c][i].audio =
                      Base64(GenerateTts(inbox[c][i].model_id, inbox[c][i].base)))
    /\ [][\A w \in Sockets, c \in Sockets :
             (/\ StepsFrom(w, "body")
              /\ Len(inbox'[c]) = Len(inbox[c]) + 1
              /\ inbox'[c][Len(inbox'[c])].tr = "failed")
             => /\ rooms' = rooms
                /\ \/ pc'[w] = "body" /\ iter'[w].idx = iter[w].idx + 1
                   \/ pc'[w] = "receive" /\ iter[w].idx = Len(IterList(w))]_vars

\* a payload was delivered whose translation had failed
FallbackDelivered ==
    \E c \in Sockets : \E i \in DOMAIN inbox[c] :
        /\ inbox[c][i].tr = "failed"
        /\ inbox[c][i].base # EmptyText
        /\ inbox[c][i].text = inbox[c][i].base
        /\ inbox[c][i].audio # NoAudio

\* ---------------------------------------------------------------------- C8
\* C8: every payload of an utterance goes to a connection that was in the
\* room when the fan-out of the utterance started; a connection that joined
\* while the fan-out was suspended gets none.
LateJoinerNotServed ==
    [][\A w \in Sockets, c \in Sockets :
          (StepsFrom(w, "body") /\ inbox'[c] # inbox[c])
          => c \in ListMembers(startList[w])]_vars

\* ---------------------------------------------------------------------- C9
\* C9: the fan-out of an utterance received with N participants in the room
\* delivers at most N payloads, and at most one to each participant.
Delivered(box, w, u) ==
    UNION {{<<c, i>> : i \in PayloadIdx(box[c], w, u)} : c \in Sockets}

FanoutAtMostN ==
    [][\A w \in Sockets :
          StepsFrom(w, "body") =>
             /\ Cardinality(Delivered(inbox', w, cur[w].utt)) <= recvCount[w]
             /\ \A c \in Sockets :
                   Cardinality(PayloadIdx(inbox'[c], w, cur[w].utt)) <= 1]_vars

\* --------------------------------------------------------------------- C10
\* C10: a handler whose token is missing or fails verification ends closed
\* with the unauthorized code, is never in any room, is sent nothing, and
\* its attempt changes neither the registry nor anybody's payloads.
UnauthorizedNeverJoins ==
    /\ [](\A w \in Sockets :
             cred[w] \in {"missing", "invalid"} =>
                /\ pc[w] = "closed"
                /\ closeCode[w] = CloseUnauthorized
                /\ \A r \in RoomIds : ~IsConnected(rooms, r, w)
                /\ inbox[w] = <<>>)
    /\ [][\A w \in Sockets :
             (cred[w] = "unknown" /\ cred'[w] \in {"missing", "invalid"})
             => rooms' = rooms /\ inbox' = inbox]_vars

\* one attempt came without a token and one with a bad one, while a room
\* was in use
AttemptsRefused ==
    \E a \in Sockets, b \in Sockets :
        /\ cred[a] = "missing" /\ pc[a] = "closed"
        /\ cred[b] = "invalid" /\ pc[b] = "closed"
        /\ DOMAIN rooms # {}

\* --------------------------------------------------------------------- C11
\* C11: on the chat and on the audio endpoint alike, a connection turned away
\* because its room was full and a connection turned away for a missing or
\* invalid credential carry different close codes: the code tells the cause.
CloseCodesDistinct ==
    /\ CloseRoomFull # CloseUnauthorized
    /\ [](\A w \in Sockets :
             /\ cred[w] \in {"missing", "invalid"}
                   => closeCode[w] = CloseUnauthorized
             /\ (cred[w] = "verified" /\ closeCode[w] # NoClose)
                   => /\ closeCode[w] = CloseRoomFull
                      /\ closeCode[w] # CloseUnauthorized)
    /\ [][\A w \in Sockets :
             /\ (StepsFrom(w, "accept") /\ RoomFull(rooms, room[w]))
                   => closeCode'[w] \notin {NoClose, CloseUnauthorized}
             /\ (cred[w] = "unknown" /\ cred'[w] \in {"missing", "invalid"})
                   => closeCode'[w] \notin {NoClose, CloseRoomFull}]_vars

\* the audio connection, its credential verified, was turned away from a
\* room that two chat connections fill
AudioRefusedRoomFull ==
    \E a \in Sockets :
        /\ endpoint[a] = "audio" /\ cred[a] = "verified"
        /\ closeCode[a] = CloseRoomFull /\ pc[a] = "closed"
        /\ Len(rooms[room[a]]) = RoomCapacity
        /\ \A c \in Members(rooms, room[a]) : endpoint[c] = "chat"

\* --------------------------------------------------------------------- C12
\* C12: a transcription that fails for the recognition service costs only
\* its utterance: the handler is back at receiving, its connection is still
\* registered in its room, and nothing was closed.
TranscriptionFailureKeepsSession ==
    [][\A w \in Sockets :
          (StepsFrom(w, "transcribe") /\ cur[w].heard = "error")
          => /\ pc'[w] = "receive"
             /\ IsConnected(rooms', room[w], w)
             /\ closeCode'[w] = NoClose]_vars

\* --------------------------------------------------------------------- C13
\* C13: every participant record of the registry belongs to a handler that
\* is still running its session: a handler that has ended, however it ended,
\* has no record left.
RegistryHoldsOnlyActive ==
    \A r \in DOMAIN rooms : \A i \in DOMAIN rooms[r] :
        pc[rooms[r][i].websocket] \in ActivePcs

\* --------------------------------------------------------------------- C14
\* C14: whatever the interleaving of joins and leaves, with handlers
\* suspended at accept, in a fan-out or in a notice loop, no room ever holds
\* more than RoomCapacity participants and no websocket is in a list twice
\* or in two rooms.
CapacityNeverExceeded ==
    /\ \A r \in DOMAIN rooms :
          /\ Len(rooms[r]) <= RoomCapacity
          /\ \A i \in DOMAIN rooms[r], j \in DOMAIN rooms[r] :
                rooms[r][i].websocket = rooms[r][j].websocket => i = j
    /\ \A r1 \in DOMAIN rooms, r2 \in DOMAIN rooms :
          r1 # r2 => Members(rooms, r1) \cap Members(rooms, r2) = {}

\* a join is suspended at accept for a room that is full, one of whose
\* members is in the middle of a fan-out
JoinSuspendedAtFullRoom ==
    \E z \in Sockets :
        /\ pc[z] = "accept"
        /\ room[z] \in DOMAIN rooms
        /\ Len(rooms[room[z]]) = RoomCapacity
        /\ \E m \in Members(rooms, room[z]) : pc[m] = "body"

\* --------------------------------------------------------------------- C15
\* C15: a handler takes its next utterance only when the fan-out of the one
\* before is through, and the new utterance is later than every payload of
\* the sender delivered so far; so in every inbox the payloads of one sender
\* stand in the order of its utterances.
SenderOrderKept ==
    /\ [](\A c \in Sockets : \A i \in DOMAIN inbox[c], j \in DOMAIN inbox[c] :
             (/\ i < j
              /\ inbox[c][i].user_id = inbox[c][j].user_id
              /\ ~IsNotice(inbox[c][i])
              /\ ~IsNotice(inbox[c][j]))
             => inbox[c][i].utt < inbox[c][j].utt)
    /\ [][\A w \in Sockets :
             (cur'[w].utt # cur[w].utt /\ cur'[w].utt # 0)
             => /\ pc[w] = "receive"
                /\ iter[w] = NoIter
                /\ \A c \in Sockets : \A i \in DOMAIN inbox[c] :
                      inbox[c][i].user_id = UserId(w)
                         => inbox[c][i].utt < cur'[w].utt]_vars

\* a peer of the sender holds the payloads of two utterances of the sender
TwoUtterancesDelivered ==
    \E w \in Sockets, c \in Sockets :
        /\ c # w
        /\ \E i \in DOMAIN inbox[c], j \in DOMAIN inbox[c] :
              /\ i < j
              /\ inbox[c][i].user_id = UserId(w)
              /\ inbox[c][j].user_id = UserId(w)
              /\ inbox[c][i].utt > 0
              /\ inbox[c][i].utt < inbox[c][j].utt

\* --------------------------------------------------------------------- C16
\* C16: when an adapter call made for one recipient does not return, the
\* recipients that come after it in the list, and can be reached, still get
\* their payload of the utterance in the end, and the handler gets back to
\* receiving.
HungCallDoesNotBlock ==
    \A w \in Sockets :
        /\ (pc[w] = "hung") ~> (pc[w] = "receive")
        /\ \A c \in Sockets :
              (/\ pc[w] = "hung"
               /\ \E j \in DOMAIN IterList(w) :
                     j > iter[w].idx /\ IterList(w)[j].websocket = c
               /\ Reachable(c))
              ~> (PayloadIdx(inbox[c], w, cur[w].utt) # {} \/ ~Reachable(c))

\* --------------------------------------------------------------------- C17
\* C17: a delivered payload went through the translation call exactly when
\* its recipient has a language and that language is not the sender's; a
\* payload that did not carries the base text unchanged, one whose
\* translation succeeded carries the translation into the recipient's
\* language. So the sender's own echo and the payload of a recipient without
\* language carry the base text.
TranslatedExactlyWhenNeeded ==
    \A c \in Sockets : \A i \in DOMAIN inbox[c] :
        LET m == inbox[c][i]
            w == m.user_id[2]
        IN ~IsNotice(m) =>
              /\ m.tr # "none" <=>
                    (language[c] # NoLanguage /\ language[c] # language[w])
              /\ m.tr = "none" => m.text = m.base
              /\ m.tr = "ok" => m.text = Translated(m.base, language[c])
              /\ (c = w \/ language[c] = NoLanguage) => m.text = m.base

\* of one utterance, a peer holds the translation and the sender, who has
\* no language, its own text unchanged
TranslatedAndEchoed ==
    \E w \in Sockets, c \in Sockets :
        /\ c # w
        /\ language[w] = NoLanguage
        /\ \E i \in DOMAIN inbox[c], j \in DOMAIN inbox[w] :
              /\ inbox[c][i].user_id = UserId(w)
              /\ inbox[w][j].user_id = UserId(w)
              /\ inbox[c][i].utt = inbox[w][j].utt
              /\ inbox[c][i].utt > 0
              /\ inbox[c][i].tr = "ok"
              /\ inbox[c][i].text # inbox[c][i].base
              /\ inbox[w][j].tr = "none"
              /\ inbox[w][j].text = inbox[w][j].base

\* --------------------------------------------------------------------- C18
\* C18: audio the recognizer cannot make out is no failure: the handler
\* goes from the transcription call into the fan-out over its room with the
\* empty base text, still registered, and the payloads of such an utterance
\* are built like any other, from the empty text.
UnclearAudioFannedOut ==
    /\ [][\A w \in Sockets :
             (StepsFrom(w, "transcribe") /\ cur[w].heard = "unintelligible")
             => /\ pc'[w] = "body"
                /\ cur'[w].utt = cur[w].utt
                /\ cur'[w].base = EmptyText
                /\ iter'[w] = [live |-> TRUE, list |-> <<>>, idx |-> 1]
                /\ startList'[w] = rooms[room[w]]
                /\ IsConnected(rooms', room[w], w)]_vars
    /\ [](\A c \in Sockets : \A i \in DOMAIN inbox[c] :
             (~IsNotice(inbox[c][i]) /\ inbox[c][i].base = EmptyText)
             => /\ inbox[c][i].text = EmptyText
                /\ inbox[c][i].audio =
                      Base64(GenerateTts(inbox[c][i].model_id, EmptyText)))

\* the payload of an utterance nobody could make out reached a peer of the
\* audio sender, whose handler is still running
UnclearUtteranceDelivered ==
    \E w \in Sockets, c \in Sockets :
        /\ c # w
        /\ endpoint[w] = "audio"
        /\ pc[w] \in ActivePcs
        /\ IsConnected(rooms, room[w], w)
        /\ \E i \in DOMAIN inbox[c] :
              /\ inbox[c][i].user_id = UserId(w)
              /\ inbox[c][i].utt > 0
              /\ inbox[c][i].base = EmptyText

\* --------------------------------------------------------------------- C19
\* C19: a connection leaves the registry only when its own transport is
\* gone, and a departure notice of a connection is sent only then: a send
\* that fails for another recipient takes the sender, whose transport is up,
\* neither out of its room nor into the notice loop.
RemovedOnlyOnOwnDisconnect ==
    [][\A w \in Sockets :
          /\ (IsConnected(rooms, room[w], w) /\ ~IsConnected(rooms', room[w], w))
                => client[w] = "gone"
          /\ (pc[w] # "notify" /\ pc'[w] = "notify") => client[w] = "gone"
          /\ \A c \in Sockets :
                Cardinality(NoticeIdx(inbox'[c], w)) > Cardinality(NoticeIdx(inbox[c], w))
                   => client[w] = "gone"]_vars

\* --------------------------------------------------------------------- C20
\* C20: whatever a connection was sent, payload or notice, comes from a
\* sender of its own room, and the connection had been registered there: a
\* connection of another room, one refused for a full room and one refused
\* for its credential are sent nothing; and each delivery goes to a
\* connection of the list of the sender's room.
RoomIsolation ==
    /\ [](\A c \in Sockets : \A i \in DOMAIN inbox[c] :
             LET w == inbox[c][i].user_id[2] IN
             /\ room[c] = room[w]
             /\ cred[c] = "verified"
             /\ closeCode[c] = NoClose
             /\ pc[c] \notin {"idle", "accept", "closing"})
    /\ [][\A w \in Sockets, c \in Sockets :
             (/\ pc[w] \in {"body", "notify"}
              /\ StepsFrom(w, pc[w])
              /\ inbox'[c] # inbox[c])
             => /\ room[c] = room[w]
                /\ IterList(w)[iter[w].idx].websocket = c
                /\ \A x \in Sockets \ {c} : inbox'[x] = inbox[x]]_vars

\* an utterance went round room r1 and its sender is back at receiving,
\* while a connection registered in another room was sent nothing
OtherRoomUntouched ==
    \E w \in Sockets, c \in Sockets :
        /\ room[w] # room[c]
        /\ pc[w] = "receive" /\ pc[c] = "receive"
        /\ IsConnected(rooms, room[w], w)
        /\ IsConnected(rooms, room[c], c)
        /\ PayloadIdx(inbox[w], w, 1) # {}
        /\ inbox[c] = <<>>

====
